---- MODULE Spec2Model ----
(***************************************************************************)
(* Model of the image-sizer batch orchestrator (the Index page component   *)
(* in src/src/components/ConversionCard.tsx) and of the render engines it  *)
(* calls (convertImage / createMosaicPieces in the two imageProcessor      *)
(* variants of the repository).  The engines are also modelled on their    *)
(* own, each under its own specification (TilerSpec, ...), with the        *)
(* variables of the other parts left at their initial values.              *)
(*                                                                         *)
(* React semantics assumed (React 18, automatic batching): all state       *)
(* updates made in one synchronous stretch of code (an event handler, or   *)
(* the code between two awaits of processImages) are applied together, in  *)
(* the order they were queued, and the component re-renders before the     *)
(* next event is handled.  One action of the model is one such stretch.    *)
(* A useCallback closure is replaced only when one of its dependencies     *)
(* changes identity.                                                       *)
(***************************************************************************)
EXTENDS Integers, Sequences, FiniteSets, TLC

\* ---- bounds of the model ------------------------------------------------
MaxFiles == 4          \* files the user selects over the whole behaviour
MaxBatch == 2          \* files handed to one handleFilesAdded call
MaxOvertake == 1       \* encodes that may finish before an earlier tile's
MaxSrcDim == 32        \* source widths and heights 1 .. MaxSrcDim (and the
                       \* sizes of the documented scenarios)
SmallPiece == 12       \* a piece size small enough to enumerate its pixels
MaxBlobs == 11         \* buffers handed to one downloadBlobsAsZip call
MaxMixed == 2          \* length of the buffer lists of arbitrary media types
MaxName == 4           \* characters of a file name
MaxExportQueue == 2    \* items in the queue when downloads are requested
MaxExports == 2        \* download timers and zip promises pending at once

\* ---- program constants --------------------------------------------------
PieceCount == 9        \* piecesCompleted === 9
HorizontalWidth == 2050
VerticalHeight == 2994
LabelX == 10           \* pieceCtx.fillRect(10, 10, 40, 30)
LabelY == 10
LabelW == 40
LabelH == 30
MantissaBits == 52     \* fraction bits of a JavaScript number (IEEE double)

Tiles == 0 .. (PieceCount - 1)
FileIds == 1 .. MaxFiles
Impls == {"imageProcessor", "part_002"}

\* Encodes that yield no data (toBlob calls back with null) in one
\* createMosaicPieces call: none, one tile, every tile.
NullTileChoices == {{}, {4}, Tiles}

VARIABLES
  images,        \* useState<ImageItem[]>: the queue
  isProcessing,  \* useState(false): the in-flight flag
  mosaicMode,    \* useState(false)
  hfa,           \* what the processImages closure referenced by the memoized
                 \* handleFilesAdded captured: [isProcessing, mosaicMode]
  runs,          \* the processImages invocations suspended at an await
  nextFile,      \* identity of the next File object the user selects
  rendered,      \* per file: number of convertImage/createMosaicPieces calls
  toast,         \* the last toast shown
  revoked,       \* the object URLs passed to URL.revokeObjectURL
  created,       \* the object URLs URL.createObjectURL returned
  impl,          \* which imageProcessor variant the build resolves to
  tiler,         \* one createMosaicPieces call, callback by callback
  geom,          \* the geometry one img.onload computes
  zip,           \* one downloadBlobsAsZip call
  naming,        \* one computation of a download file name
  intake,        \* the files that came in through the drop zone and inputs
  exports        \* the downloads requested and not yet finished

vars == <<images, isProcessing, mosaicMode, hfa, runs, nextFile, rendered,
          toast, revoked, created, impl, tiler, geom, zip, naming, intake,
          exports>>

\* The state of the Index component.
pageVars == <<images, isProcessing, mosaicMode, hfa, runs, nextFile, rendered,
              toast, revoked, created>>

\* The engine calls that are modelled on their own.
engineVars == <<tiler, geom, zip, naming, intake, exports>>

\* The user-interface paths that are modelled on their own.
uiVars == <<naming, intake, exports>>

NoPieces == [src |-> 0, n |-> 0]

\* convertedUrl is undefined
NoUrl == <<>>

\* URL.createObjectURL(blob) for the result of the call-th render of file f:
\* every call returns a URL of its own.
ObjectUrl(f, call) == <<f, call>>

\* { file, status: 'idle' }
NewItem(f) ==
  [file |-> f, status |-> "idle", convertedBlob |-> 0, mosaicPieces |-> NoPieces,
   convertedUrl |-> NoUrl]

Terminal == {"completed", "error"}

QueueFiles(imgs) == {imgs[i].file : i \in DOMAIN imgs}

\* current.map((img, idx) => idx === index ? { ...img, status } : img)
MarkStatus(imgs, index, st) ==
  [idx \in DOMAIN imgs |->
     IF idx = index THEN [imgs[idx] EXCEPT !.status = st] ELSE imgs[idx]]

\* idx === index ? { ...img, status: 'completed', mosaicPieces, convertedUrl }
MarkMosaic(imgs, index, src, n, url) ==
  [idx \in DOMAIN imgs |->
     IF idx = index
     THEN [imgs[idx] EXCEPT !.status = "completed",
                            !.mosaicPieces = [src |-> src, n |-> n],
                            !.convertedUrl = url]
     ELSE imgs[idx]]

\* idx === index ? { ...img, status: 'completed', convertedBlob, convertedUrl }
MarkConverted(imgs, index, src, url) ==
  [idx \in DOMAIN imgs |->
     IF idx = index
     THEN [imgs[idx] EXCEPT !.status = "completed", !.convertedBlob = src,
                            !.convertedUrl = url]
     ELSE imgs[idx]]

\* A splice that drops the last item whatever the index.
SpliceLast(imgs, index) == SubSeq(imgs, 1, Len(imgs) - 1)

\* newImages.splice(index, 1)
Splice(imgs, index) ==
  [idx \in 1 .. (Len(imgs) - 1) |->
     IF idx < index THEN imgs[idx] ELSE imgs[idx + 1]]

\* ---- render engines -----------------------------------------------------

\* convertImage: resolves with one blob unless the image fails to load or
\* canvas.toBlob yields no data.
convertImage(loads, encodes) ==
  [ok |-> loads /\ encodes, n |-> IF loads /\ encodes THEN 1 ELSE 0]

\* A callback that resolves as soon as one tile has been encoded.
TileCallbackEager(variant, st, hasBlob) ==
  IF hasBlob /\ ~st.settled
  THEN [pieces |-> st.pieces + 1, piecesCompleted |-> st.piecesCompleted + 1,
        settled |-> TRUE, ok |-> TRUE, n |-> st.pieces + 1]
  ELSE [st EXCEPT !.piecesCompleted = @ + 1]

\* One toBlob callback of createMosaicPieces.  st is the promise's state:
\* pieces (pieces.length), piecesCompleted, settled, ok, n (length of the
\* array the promise resolved with).
TileCallback(variant, st, hasBlob) ==
  IF variant = "imageProcessor"
  THEN IF hasBlob
       THEN LET p == st.pieces + 1
                c == st.piecesCompleted + 1
            IN  IF c = PieceCount /\ ~st.settled
                THEN [pieces |-> p, piecesCompleted |-> c,
                      settled |-> TRUE, ok |-> TRUE, n |-> p]
                ELSE [st EXCEPT !.pieces = p, !.piecesCompleted = c]
       ELSE IF st.settled THEN st
            ELSE [st EXCEPT !.settled = TRUE, !.ok = FALSE]
  ELSE LET p == IF hasBlob THEN st.pieces + 1 ELSE st.pieces
           c == st.piecesCompleted + 1
       IN  IF c = PieceCount /\ ~st.settled
           THEN [pieces |-> p, piecesCompleted |-> c, settled |-> TRUE,
                 ok |-> (p # 0), n |-> IF p # 0 THEN p ELSE 0]
           ELSE [st EXCEPT !.pieces = p, !.piecesCompleted = c]

RECURSIVE RunTileCallbacks(_, _, _, _)
RunTileCallbacks(variant, st, t, nullTiles) ==
  IF t = PieceCount THEN st
  ELSE RunTileCallbacks(variant, TileCallback(variant, st, t \notin nullTiles),
                        t + 1, nullTiles)

\* createMosaicPieces: the settled promise, [ok, n]; img.onerror rejects.
createMosaicPieces(variant, loads, nullTiles) ==
  IF ~loads THEN [ok |-> FALSE, n |-> 0]
  ELSE LET st == RunTileCallbacks(variant,
                   [pieces |-> 0, piecesCompleted |-> 0, settled |-> FALSE,
                    ok |-> FALSE, n |-> 0], 0, nullTiles)
       IN  [ok |-> st.settled /\ st.ok, n |-> IF st.ok THEN st.n ELSE 0]

\* The outcomes one render can have, by engine.
Outcomes(variant, mosaic) ==
  IF mosaic
  THEN {createMosaicPieces(variant, l, nt) : l \in BOOLEAN, nt \in NullTileChoices}
  ELSE {convertImage(l, e) : l \in BOOLEAN, e \in BOOLEAN}

NoConv == [targetWidth |-> 0, targetHeight |-> 0, canvasW |-> 0, canvasH |-> 0,
           x2 |-> 0, y2 |-> 0, nan |-> FALSE]

NoNum == [num |-> 0, den |-> 1, drift |-> 0, exact |-> TRUE]

NoMosaic == [totalWidth |-> 0, totalHeight |-> 0,
             scale |-> [num |-> 0, den |-> 1],
             scaledWidth |-> NoNum, scaledHeight |-> NoNum,
             x |-> NoNum, y |-> NoNum, finite |-> TRUE]

NoTiles == [t \in Tiles |-> [srcX |-> 0, srcY |-> 0, width |-> 0, height |-> 0]]

\* No onload handler is being followed.
GeomIdle ==
  [phase |-> "idle", w |-> 0, h |-> 0, pw |-> 0, ph |-> 0,
   conv |-> NoConv, mos |-> NoMosaic, tiles |-> NoTiles]

\* Nothing has been dropped or selected: the queue of declared media types
\* is empty.
IntakeIdle == [queue |-> <<>>, toast |-> "none"]

\* No download is under way: no setTimeout callback of handleDownloadAll and
\* no downloadBlobsAsZip promise is pending.  last is what the browser was
\* last handed (data: the buffer, or the buffers packaged), or the packaging
\* that last failed.
NoExport == [file |-> 0, kind |-> "none", data |-> 0]

ExportsIdle == [timers |-> <<>>, zips |-> <<>>, last |-> NoExport]

\* No download file name is being computed.
NamingIdle == [phase |-> "idle", name |-> <<>>, filename |-> <<>>]

\* No downloadBlobsAsZip call is being followed.  Text is a sequence of
\* characters.
ZipIdle ==
  [phase |-> "idle", source |-> <<>>, blobs |-> <<>>, base |-> <<>>,
   entries |-> <<>>, built |-> FALSE, size |-> 0, download |-> <<>>,
   error |-> "none"]

\* No createMosaicPieces call is being followed.
TilerIdle ==
  [phase |-> "idle", pending |-> {}, pieces |-> <<>>,
   st |-> [pieces |-> 0, piecesCompleted |-> 0, settled |-> FALSE,
           ok |-> FALSE, n |-> 0]]

\* ---- orchestrator -------------------------------------------------------

Init ==
  /\ images = <<>>
  /\ isProcessing = FALSE
  /\ mosaicMode = FALSE
  /\ hfa = [isProcessing |-> FALSE, mosaicMode |-> FALSE]
  /\ runs = <<>>
  /\ nextFile = 1
  /\ rendered = [f \in FileIds |-> 0]
  /\ toast = "none"
  /\ revoked = {}
  /\ created = {}
  /\ impl \in Impls
  /\ tiler = TilerIdle
  /\ geom = GeomIdle
  /\ zip = ZipIdle
  /\ naming = NamingIdle
  /\ intake = IntakeIdle
  /\ exports = ExportsIdle

\* imagesToProcess.filter(img => img.status === 'idle'), each with the index
\* findIndex gives it in imagesToProcess.
RECURSIVE PendingFrom(_, _)
PendingFrom(imgs, i) ==
  IF i > Len(imgs) THEN <<>>
  ELSE IF imgs[i].status = "idle"
       THEN <<[index |-> i, file |-> imgs[i].file]>> \o PendingFrom(imgs, i + 1)
       ELSE PendingFrom(imgs, i + 1)

PendingImages(imagesToProcess) == PendingFrom(imagesToProcess, 1)

\* if (isProcessing) return;   (the value the closure captured)
ProcessGuard(captured) == captured.isProcessing

CountRender(r, f) == [r EXCEPT ![f] = @ + 1]

\* handleFilesAdded(files) with n new File objects, and the synchronous part
\* of the processImages call it makes (up to the first await).
handleFilesAdded(n) ==
  /\ n \in 1 .. MaxBatch
  /\ nextFile + n - 1 <= MaxFiles
  /\ LET newImages == [k \in 1 .. n |-> NewItem(nextFile + k - 1)]
         appended == images \o newImages
         imagesToProcess == images \o newImages
         pendingImages == PendingImages(imagesToProcess)
         starts == ~ProcessGuard(hfa) /\ pendingImages # <<>>
     IN  /\ nextFile' = nextFile + n
         /\ toast' = "added"
         /\ IF starts
            THEN /\ isProcessing' = TRUE
                 /\ images' = MarkStatus(appended, pendingImages[1].index, "processing")
                 /\ rendered' = CountRender(rendered, pendingImages[1].file)
                 /\ runs' = Append(runs, [pend |-> pendingImages,
                                          mosaic |-> hfa.mosaicMode,
                                          call |-> rendered'[pendingImages[1].file]])
            ELSE /\ images' = appended
                 /\ UNCHANGED <<isProcessing, runs, rendered>>
         /\ hfa' = [isProcessing |-> isProcessing', mosaicMode |-> mosaicMode]
         /\ UNCHANGED <<mosaicMode, revoked, created, impl, engineVars>>

\* if (image.convertedUrl) URL.revokeObjectURL(image.convertedUrl), for the
\* items at the positions in at.
HeldUrls(imgs, at) ==
  {imgs[i].convertedUrl : i \in {j \in at : imgs[j].convertedUrl # NoUrl}}

RemoveAt(s, k) == [j \in 1 .. (Len(s) - 1) |-> IF j < k THEN s[j] ELSE s[j + 1]]

\* The continuation of processImages after the await of run k settles with
\* outcome o: the completion (or catch) update, then the next loop iteration
\* up to its await, or setIsProcessing(false) after the last one.
Settle(k, o) ==
  /\ k \in DOMAIN runs
  /\ o \in Outcomes(impl, runs[k].mosaic)
  /\ LET r == runs[k]
         cur == r.pend[1]
         rest == Tail(r.pend)
         url == ObjectUrl(cur.file, r.call)
         settled ==
           IF ~o.ok THEN MarkStatus(images, cur.index, "error")
           ELSE IF r.mosaic THEN MarkMosaic(images, cur.index, cur.file, o.n, url)
           ELSE MarkConverted(images, cur.index, cur.file, url)
     IN  /\ toast' = IF o.ok THEN toast ELSE "processError"
         /\ created' = IF o.ok THEN created \cup {url} ELSE created
         /\ IF rest # <<>>
            THEN /\ images' = MarkStatus(settled, rest[1].index, "processing")
                 /\ rendered' = CountRender(rendered, rest[1].file)
                 /\ runs' = [runs EXCEPT ![k].pend = rest,
                                         ![k].call = rendered'[rest[1].file]]
                 /\ UNCHANGED isProcessing
            ELSE /\ images' = settled
                 /\ runs' = RemoveAt(runs, k)
                 /\ isProcessing' = FALSE
                 /\ UNCHANGED rendered
         /\ hfa' = [isProcessing |-> isProcessing', mosaicMode |-> mosaicMode]
         /\ UNCHANGED <<mosaicMode, nextFile, revoked, impl, engineVars>>

RenderSettles == \E k \in DOMAIN runs : \E o \in Outcomes(impl, runs[k].mosaic) : Settle(k, o)

\* handleRemoveImage(index): the remove button of the preview at that position.
handleRemoveImage(index) ==
  /\ index \in DOMAIN images
  /\ images' = Splice(images, index)
  /\ revoked' = revoked \cup HeldUrls(images, {index})
  /\ hfa' = [isProcessing |-> isProcessing, mosaicMode |-> mosaicMode]
  /\ UNCHANGED <<isProcessing, mosaicMode, runs, nextFile, rendered, toast,
                 created, impl, engineVars>>

\* handleReset: the Voltar button is shown whenever the queue is non-empty and
\* is not disabled while a run is in flight.
handleReset ==
  /\ Len(images) > 0
  /\ revoked' = revoked \cup HeldUrls(images, DOMAIN images)
  /\ images' = <<>>
  /\ toast' = "reset"
  /\ hfa' = [isProcessing |-> isProcessing, mosaicMode |-> mosaicMode]
  /\ UNCHANGED <<isProcessing, mosaicMode, runs, nextFile, rendered, created,
                 impl, engineVars>>

\* A guard that only looks for an item being processed.
ModeChangeBlockedIfProcessing(imgs) ==
  \E i \in DOMAIN imgs : imgs[i].status = "processing"

\* if (images.length > 0) { toast.error(...); return; }
ModeChangeBlocked(imgs) == Len(imgs) > 0

\* handleMosaicModeChange(enabled).  images keeps its identity, so the
\* memoized handleFilesAdded (deps [images]) is not replaced.
handleMosaicModeChange(enabled) ==
  /\ enabled \in BOOLEAN
  /\ IF ModeChangeBlocked(images)
     THEN /\ toast' = "modeRejected"
          /\ UNCHANGED mosaicMode
     ELSE /\ mosaicMode' = enabled
          /\ toast' = IF enabled THEN "mosaicOn" ELSE "mosaicOff"
  /\ UNCHANGED <<images, isProcessing, hfa, runs, nextFile, rendered, revoked,
                 created, impl, engineVars>>

Next ==
  \/ \E n \in 1 .. MaxBatch : handleFilesAdded(n)
  \/ RenderSettles
  \/ \E index \in DOMAIN images : handleRemoveImage(index)
  \/ handleReset
  \/ \E enabled \in BOOLEAN : handleMosaicModeChange(enabled)

Spec == Init /\ [][Next]_vars


\* ---- createMosaicPieces, callback by callback ---------------------------

\* The page at rest, for the specifications of the engines.
PageInit ==
  /\ images = <<>>
  /\ isProcessing = FALSE
  /\ mosaicMode = FALSE
  /\ hfa = [isProcessing |-> FALSE, mosaicMode |-> FALSE]
  /\ runs = <<>>
  /\ nextFile = 1
  /\ rendered = [f \in FileIds |-> 0]
  /\ toast = "none"
  /\ revoked = {}
  /\ created = {}

\* createMosaicPieces(file, ...) was called: img.src = url.
TilerInit ==
  /\ PageInit
  /\ impl \in Impls
  /\ tiler = [TilerIdle EXCEPT !.phase = "loading"]
  /\ geom = GeomIdle
  /\ zip = ZipIdle
  /\ naming = NamingIdle
  /\ intake = IntakeIdle
  /\ exports = ExportsIdle

\* img.onerror: reject(new Error('Failed to load image')).
TilerLoadError ==
  /\ tiler.phase = "loading"
  /\ tiler' = [tiler EXCEPT !.phase = "done", !.st.settled = TRUE]
  /\ UNCHANGED <<pageVars, impl, geom, zip, uiVars>>

\* img.onload: the composite is drawn and the row/col loops call toBlob on
\* each of the 9 piece canvases, in row-major order.
TilerLoaded ==
  /\ tiler.phase = "loading"
  /\ tiler' = [tiler EXCEPT !.phase = "encoding", !.pending = Tiles]
  /\ UNCHANGED <<pageVars, impl, geom, zip, uiVars>>

\* The encodes run in parallel; the callback of tile t may run while at most
\* MaxOvertake earlier tiles are still being encoded.
MayComplete(t) ==
  /\ t \in tiler.pending
  /\ Cardinality({u \in tiler.pending : u < t}) <= MaxOvertake

\* The toBlob callback of tile t = row * 3 + col, with a blob or with null.
\* A blob is identified by the tile it encodes.
TilerCallback(t, hasBlob) ==
  /\ tiler.phase = "encoding"
  /\ MayComplete(t)
  /\ LET st2 == TileCallback(impl, tiler.st, hasBlob)
         pushed == IF hasBlob THEN Append(tiler.pieces, t) ELSE tiler.pieces
     IN  tiler' = [phase |-> IF tiler.pending = {t} THEN "done" ELSE "encoding",
                   pending |-> tiler.pending \ {t},
                   pieces |-> pushed,
                   st |-> st2]
  /\ UNCHANGED <<pageVars, impl, geom, zip, uiVars>>

TilerNext ==
  \/ TilerLoadError
  \/ TilerLoaded
  \/ \E t \in Tiles : \E hasBlob \in BOOLEAN : TilerCallback(t, hasBlob)

TilerSpec == TilerInit /\ [][TilerNext]_vars

\* The promise of the followed call resolved; its value is the pieces array.
TilerResolved == tiler.st.settled /\ tiler.st.ok

\* ---- geometry -----------------------------------------------------------

\* Math.round(num / den) for positive integers: nearest integer, halves up.
JsRoundFloor(num, den) == num \div den

JsRound(num, den) == (2 * num + den) \div (2 * den)

\* A convertImage that always makes a horizontalWidth x verticalHeight canvas
\* and centres the image in it.
ConvertGeometryBoxed(w, h, horizontalWidth, verticalHeight) ==
  LET isHorizontal == w > h
      targetWidth == IF isHorizontal THEN horizontalWidth
                     ELSE IF h = 0 THEN 0 ELSE JsRound(horizontalWidth * w, h)
      targetHeight == IF isHorizontal THEN JsRound(verticalHeight * h, w)
                      ELSE verticalHeight
  IN  [targetWidth |-> targetWidth, targetHeight |-> targetHeight,
       canvasW |-> horizontalWidth, canvasH |-> verticalHeight,
       x2 |-> horizontalWidth - targetWidth, y2 |-> verticalHeight - targetHeight,
       nan |-> ~isHorizontal /\ h = 0]

\* The img.onload of convertImage up to drawImage.  x2, y2 are twice the
\* offsets x, y (which are halves of integers).  For a 0 x 0 image
\* targetWidth = Math.round(0 / 0) is NaN (nan is TRUE): canvas.width = NaN
\* makes the canvas 0 wide, x is NaN and drawImage draws nothing.
ConvertGeometry(w, h, horizontalWidth, verticalHeight) ==
  LET isHorizontal == w > h
      targetWidth == IF isHorizontal THEN horizontalWidth
                     ELSE IF h = 0 THEN 0 ELSE JsRound(horizontalWidth * w, h)
      targetHeight == IF isHorizontal THEN JsRound(verticalHeight * h, w)
                      ELSE verticalHeight
      canvasW == IF isHorizontal THEN horizontalWidth ELSE targetWidth
      canvasH == IF isHorizontal THEN targetHeight ELSE verticalHeight
  IN  [targetWidth |-> targetWidth, targetHeight |-> targetHeight,
       canvasW |-> canvasW, canvasH |-> canvasH,
       x2 |-> canvasW - targetWidth, y2 |-> canvasH - targetHeight,
       nan |-> ~isHorizontal /\ h = 0]

\* -- IEEE double arithmetic of  a * (T / b)  for positive integers ---------

RECURSIVE PowMod(_, _)
\* 2^k mod m
PowMod(k, m) == IF k = 0 THEN 1 % m ELSE (2 * PowMod(k - 1, m)) % m

RECURSIVE Pow2(_)
Pow2(k) == IF k = 0 THEN 1 ELSE 2 * Pow2(k - 1)

RECURSIVE FloorLog2Up(_, _, _)
\* the largest e >= from with b * 2^e <= t   (t >= b * 2^from)
FloorLog2Up(t, b, from) ==
  IF b * Pow2(from + 1) <= t THEN FloorLog2Up(t, b, from + 1) ELSE from

RECURSIVE CeilLog2Down(_, _, _)
\* the smallest e >= from with t * 2^e >= b
CeilLog2Down(t, b, from) ==
  IF t * Pow2(from) >= b THEN from ELSE CeilLog2Down(t, b, from + 1)

\* floor(log2(t / b)): the exponent of the double t / b
FloorLog2Ratio(t, b) ==
  IF t >= b THEN FloorLog2Up(t, b, 0) ELSE 0 - CeilLog2Down(t, b, 1)

\* The quotient q = T / b as a double: q = N / 2^k with 2^52 <= N <= 2^53.
\* N * b = T * 2^k + delta; the result is delta, -b/2 <= delta <= b/2
\* (round to nearest, ties to even N).
QuotientDelta(T, b) ==
  LET k == MantissaBits - FloorLog2Ratio(T, b)
      r == ((T % b) * PowMod(k, b)) % b
      r2 == ((T % (2 * b)) * PowMod(k, 2 * b)) % (2 * b)
      floorOdd == (r2 - r) \div b = 1
      up == 2 * r > b \/ (2 * r = b /\ floorOdd)
  IN  IF r = 0 THEN 0 ELSE IF up THEN b - r ELSE 0 - r

Abs(n) == IF n < 0 THEN 0 - n ELSE n

IsPow2(v) == v = Pow2(FloorLog2Ratio(v, 1))

\* The double a * (T / b), scale = T / b being the double quotient.  When the
\* exact product a*T/b is an integer V (a double), drift is the sign of the
\* computed product minus V: the computed value is V, or the double next to
\* V on that side.  Otherwise exact is FALSE: the computed value is a double
\* within one unit in the last place of num/den.
FlScaled(a, T, b) ==
  IF (a * T) % b # 0
  THEN [num |-> a * T, den |-> b, drift |-> 0, exact |-> FALSE]
  ELSE LET V == (a * T) \div b
           delta == QuotientDelta(T, b)
           sV == FloorLog2Ratio(V, 1) - FloorLog2Ratio(T, b)
           A == Abs(a * delta)
           U == b * Pow2(sV)
           away == IF delta < 0 /\ IsPow2(V) THEN 4 * A > U ELSE 2 * A > U
       IN  [num |-> V, den |-> 1,
            drift |-> IF ~away THEN 0 ELSE IF delta < 0 THEN 0 - 1 ELSE 1,
            exact |-> TRUE]

\* (total - scaled) / 2 in doubles: exact when scaled is V or a neighbour of V.
CenterOffset(total, scaled) ==
  [num |-> total * scaled.den - scaled.num, den |-> 2 * scaled.den,
   drift |-> 0 - scaled.drift, exact |-> scaled.exact]

\* The img.onload of createMosaicPieces up to the drawImage of the composite.
\* scaleWidth = totalWidth / img.width, scaleHeight = totalHeight / img.height,
\* scale = Math.max(scaleWidth, scaleHeight): the two doubles compare as the
\* exact quotients do (distinct quotients of integers this small are distinct
\* doubles, equal quotients are the same double).
\* When img.width or img.height is 0 the quotient is Infinity, scale is
\* Infinity and the scaled sizes and offsets are NaN or infinite (finite is
\* FALSE): the composite canvas is still made and filled, drawImage draws
\* nothing.
MosaicGeometry(w, h, pieceWidth, pieceHeight) ==
  LET totalWidth == pieceWidth * 3
      totalHeight == pieceHeight * 3
      widthWins == totalWidth * h >= totalHeight * w
      T == IF widthWins THEN totalWidth ELSE totalHeight
      b == IF widthWins THEN w ELSE h
      scaledWidth == FlScaled(w, T, b)
      scaledHeight == FlScaled(h, T, b)
  IN  IF w = 0 \/ h = 0
      THEN [NoMosaic EXCEPT !.totalWidth = totalWidth,
                            !.totalHeight = totalHeight, !.finite = FALSE]
      ELSE [totalWidth |-> totalWidth, totalHeight |-> totalHeight,
            scale |-> [num |-> T, den |-> b],
            scaledWidth |-> scaledWidth, scaledHeight |-> scaledHeight,
            x |-> CenterOffset(totalWidth, scaledWidth),
            y |-> CenterOffset(totalHeight, scaledHeight), finite |-> TRUE]

\* Sign of a computed double: of its exact part, or of its drift when the
\* exact part is 0 (a drift cannot change the sign of a non-zero exact part:
\* it is below 2^-30 of the value, the exact part at least 1/den).
SignOf(v) ==
  IF v.num > 0 THEN 1 ELSE IF v.num < 0 THEN 0 - 1 ELSE v.drift

\* The piece canvas of (row, col) and the rectangle of the composite that
\* drawImage(tempCanvas, srcX, srcY, pieceWidth, pieceHeight, 0, 0, ...) copies.
TileRect(row, col, pieceWidth, pieceHeight) ==
  [srcX |-> col * pieceWidth, srcY |-> row * pieceHeight,
   width |-> pieceWidth, height |-> pieceHeight]

\* The pixel of tile (row, col) at (tx, ty): the composite pixel drawImage
\* copied there, and whether the piece-number label was painted over it.
TilePixel(variant, row, col, tx, ty, pieceWidth, pieceHeight) ==
  LET srcX == col * pieceWidth
      srcY == row * pieceHeight
      inLabel == /\ variant = "imageProcessor"
                 /\ tx >= LabelX /\ tx < LabelX + LabelW
                 /\ ty >= LabelY /\ ty < LabelY + LabelH
  IN  [at |-> <<srcX + tx, srcY + ty>>, label |-> inLabel]

\* The composite pixel at (x, y).
CompositePixel(x, y) == [at |-> <<x, y>>, label |-> FALSE]

\* img.width, img.height: 0 for an image without natural dimensions.
SrcDims == (0 .. MaxSrcDim) \cup {1000, 3000, 4000, 6000}

\* The target sizes: those the page passes, and a small one.
PieceSizes == {<<HorizontalWidth, VerticalHeight>>, <<SmallPiece, SmallPiece>>}

\* An image of w x h pixels has loaded in convertImage / createMosaicPieces
\* called with the sizes pw, ph.
GeomInit ==
  /\ PageInit
  /\ impl \in Impls
  /\ tiler = TilerIdle
  /\ zip = ZipIdle
  /\ naming = NamingIdle
  /\ intake = IntakeIdle
  /\ exports = ExportsIdle
  /\ \E w \in SrcDims, h \in SrcDims, size \in PieceSizes :
       geom = [GeomIdle EXCEPT !.phase = "loaded", !.w = w, !.h = h,
                               !.pw = size[1], !.ph = size[2]]

\* convertImage: img.onload
ConvertOnload ==
  /\ geom.phase = "loaded"
  /\ geom' = [geom EXCEPT !.phase = "converted",
                          !.conv = ConvertGeometry(geom.w, geom.h, geom.pw, geom.ph)]
  /\ UNCHANGED <<pageVars, impl, tiler, zip, uiVars>>

\* createMosaicPieces: img.onload
MosaicOnload ==
  /\ geom.phase = "loaded"
  /\ geom' = [geom EXCEPT !.phase = "tiled",
                          !.mos = MosaicGeometry(geom.w, geom.h, geom.pw, geom.ph),
                          !.tiles = [t \in Tiles |->
                                       TileRect(t \div 3, t % 3, geom.pw, geom.ph)]]
  /\ UNCHANGED <<pageVars, impl, tiler, zip, uiVars>>

GeomNext == ConvertOnload \/ MosaicOnload

GeomSpec == GeomInit /\ [][GeomNext]_vars

\* ---- downloadBlobsAsZip -------------------------------------------------

StrImage == <<"i", "m", "a", "g", "e">>
StrJpg == <<"j", "p", "g">>
StrJpeg == <<"j", "p", "e", "g">>
StrPng == <<"p", "n", "g">>
StrWebp == <<"w", "e", "b", "p">>
StrGif == <<"g", "i", "f">>
StrPhoto == <<"p", "h", "o", "t", "o">>
StrParte == <<"_", "p", "a", "r", "t", "e", "_">>
StrMosaico == <<"_", "m", "o", "s", "a", "i", "c", "o", ".", "z", "i", "p">>

MediaType(subtype) == StrImage \o <<"/">> \o subtype

\* file.type of the images the drop zone lets through (it starts with
\* 'image/'), and '' for a File whose type the browser does not know.
FileTypes == {MediaType(StrJpeg), MediaType(StrPng), MediaType(StrGif), <<>>}

\* The media types canvas.toBlob encodes; it uses image/png for any other.
CanvasTypes == {MediaType(StrJpeg), MediaType(StrPng), MediaType(StrWebp)}

\* canvas.toBlob(callback, file.type || 'image/jpeg', 0.95): blob.type
CanvasBlobType(fileType) ==
  LET requested == IF fileType = <<>> THEN MediaType(StrJpeg) ELSE fileType
  IN  IF requested \in CanvasTypes THEN requested ELSE MediaType(StrPng)

\* Media types of buffers in general: also none, and one with no subtype.
BlobTypes == CanvasTypes \cup {<<>>, MediaType(<<>>)}

RECURSIVE Split(_, _)
\* s.split(sep) for a one-character separator
Split(s, sep) ==
  IF \A k \in DOMAIN s : s[k] # sep THEN <<s>>
  ELSE LET k == CHOOSE k \in DOMAIN s :
                  s[k] = sep /\ \A j \in 1 .. (k - 1) : s[j] # sep
       IN  <<SubSeq(s, 1, k - 1)>> \o Split(SubSeq(s, k + 1, Len(s)), sep)

\* An extension that is always jpg.
ExtensionJpg(type) == StrJpg

\* blob.type.split('/')[1] || 'jpg'
Extension(type) ==
  LET parts == Split(type, "/")
  IN  IF Len(parts) >= 2 /\ parts[2] # <<>> THEN parts[2] ELSE StrJpg

DigitChars == <<"0", "1", "2", "3", "4", "5", "6", "7", "8", "9">>

RECURSIVE ToDecimal(_)
\* `${n}` for a non-negative integer
ToDecimal(n) ==
  IF n < 10 THEN <<DigitChars[n + 1]>>
  ELSE ToDecimal(n \div 10) \o <<DigitChars[(n % 10) + 1]>>

\* A name that numbers the entries from 0.
EntryNameFromZero(baseFilename, i, type) ==
  baseFilename \o StrParte \o ToDecimal(i) \o <<".">> \o Extension(type)

\* `${baseFilename}_parte_${i + 1}.${extension}`
EntryName(baseFilename, i, type) ==
  baseFilename \o StrParte \o ToDecimal(i + 1) \o <<".">> \o Extension(type)

\* zip.file(filename, blob): a file of that name is replaced, else added.
ZipFile(entries, filename, i) ==
  IF \E k \in DOMAIN entries : entries[k].name = filename
  THEN [k \in DOMAIN entries |->
          IF entries[k].name = filename THEN [name |-> filename, blob |-> i]
          ELSE entries[k]]
  ELSE Append(entries, [name |-> filename, blob |-> i])

RECURSIVE AddBlobs(_, _, _, _)
\* for (let i = 0; i < blobs.length; i++) zip.file(...)   (from index i on)
AddBlobs(entries, blobs, baseFilename, i) ==
  IF i >= Len(blobs) THEN entries
  ELSE AddBlobs(ZipFile(entries, EntryName(baseFilename, i, blobs[i + 1]), i),
                blobs, baseFilename, i + 1)

\* `${baseFilename}_mosaico.zip`
ZipFilename(baseFilename) == baseFilename \o StrMosaico

Repeat(x, n) == [k \in 1 .. n |-> x]

RECURSIVE SeqsUpTo(_, _)
SeqsUpTo(S, n) ==
  IF n = 0 THEN {<<>>}
  ELSE LET shorter == SeqsUpTo(S, n - 1)
       IN  shorter \cup {Append(q, x) : q \in shorter, x \in S}

BaseNames == {StrPhoto, <<"a">>}

\* downloadBlobsAsZip(blobs, baseFilename) was called: with the tiles that
\* createMosaicPieces made from a file of type source, or with buffers of
\* arbitrary media types.
ZipInit ==
  /\ PageInit
  /\ impl \in Impls
  /\ tiler = TilerIdle
  /\ geom = GeomIdle
  /\ naming = NamingIdle
  /\ intake = IntakeIdle
  /\ exports = ExportsIdle
  /\ \E base \in BaseNames :
       \/ \E source \in FileTypes, n \in 0 .. MaxBlobs :
            zip = [ZipIdle EXCEPT !.phase = "called", !.source = source,
                                  !.blobs = Repeat(CanvasBlobType(source), n),
                                  !.base = base]
       \/ \E blobs \in SeqsUpTo(BlobTypes, MaxMixed) :
            zip = [ZipIdle EXCEPT !.phase = "called", !.source = <<"?">>,
                                  !.blobs = blobs, !.base = base]

\* if (!blobs || blobs.length === 0) throw ...; else up to await import('jszip')
ZipCalled ==
  /\ zip.phase = "called"
  /\ zip' = IF Len(zip.blobs) = 0
            THEN [zip EXCEPT !.phase = "threw", !.error = "No blobs to download"]
            ELSE [zip EXCEPT !.phase = "importing"]
  /\ UNCHANGED <<pageVars, impl, tiler, geom, uiVars>>

\* import('jszip') resolved: new JSZip(), the loop, up to await generateAsync
ZipAddFiles ==
  /\ zip.phase = "importing"
  /\ zip' = [zip EXCEPT !.phase = "generating", !.built = TRUE,
                        !.entries = AddBlobs(<<>>, zip.blobs, zip.base, 0)]
  /\ UNCHANGED <<pageVars, impl, tiler, geom, uiVars>>

\* import('jszip') or generateAsync rejected: catch, throw new Error('Falha ...')
ZipRejected ==
  /\ zip.phase \in {"importing", "generating"}
  /\ zip' = [zip EXCEPT !.phase = "threw", !.error = "Falha ao criar arquivo zip"]
  /\ UNCHANGED <<pageVars, impl, tiler, geom, uiVars>>

\* A check of the archive's size made by both variants.
ChecksZipSizeAlways(variant) == TRUE

\* if (zipBlob.size === 0) throw ...: only in part_002
ChecksZipSize(variant) == variant = "part_002"

\* generateAsync resolved with a blob of the given size: the download, or the
\* throw of the size check caught and rethrown.
ZipGenerated(size) ==
  /\ zip.phase = "generating"
  /\ size \in {0, 1}
  /\ zip' = IF ChecksZipSize(impl) /\ size = 0
            THEN [zip EXCEPT !.phase = "threw", !.size = size,
                             !.error = "Falha ao criar arquivo zip"]
            ELSE [zip EXCEPT !.phase = "downloaded", !.size = size,
                             !.download = ZipFilename(zip.base)]
  /\ UNCHANGED <<pageVars, impl, tiler, geom, uiVars>>

ZipNext ==
  \/ ZipCalled
  \/ ZipAddFiles
  \/ ZipRejected
  \/ \E size \in {0, 1} : ZipGenerated(size)

ZipSpec == ZipInit /\ [][ZipNext]_vars

\* ---- download file names ------------------------------------------------

StrResized == <<"_", "r", "e", "s", "i", "z", "e", "d", ".">>

\* The position of the last '.' of s, 0 when it has none.
LastDot(s) ==
  IF \E k \in DOMAIN s : s[k] = "."
  THEN CHOOSE k \in DOMAIN s :
         s[k] = "." /\ \A j \in (k + 1) .. Len(s) : s[j] # "."
  ELSE 0

\* Where /\.[^/.]+$/ matches in s: at its last '.', when at least one
\* character follows it and none of them is '/'; 0 when it does not match.
ExtensionMatch(s) ==
  LET k == LastDot(s)
  IN  IF k # 0 /\ k < Len(s) /\ \A j \in (k + 1) .. Len(s) : s[j] # "/"
      THEN k ELSE 0

\* s.split('.').pop()
PopAfterDot(s) == SubSeq(s, LastDot(s) + 1, Len(s))

RECURSIVE ExpandReplacement(_)
\* The replacement text String.prototype.replace inserts for the pattern r
\* ('$$' stands for one '$'; the names modelled hold none of the other
\* patterns $&, $`, $' and $n).
ExpandReplacement(r) ==
  IF r = <<>> THEN <<>>
  ELSE IF Len(r) >= 2 /\ r[1] = "$" /\ r[2] = "$"
       THEN <<"$">> \o ExpandReplacement(SubSeq(r, 3, Len(r)))
       ELSE <<r[1]>> \o ExpandReplacement(Tail(r))

\* A name that always gets the suffix, also without an extension.
ResizedNameAlways(name) ==
  LET k == IF LastDot(name) = 0 THEN Len(name) + 1 ELSE LastDot(name)
  IN  SubSeq(name, 1, k - 1) \o StrResized \o SubSeq(name, k + 1, Len(name))

\* image.file.name.replace(/\.[^/.]+$/,
\*                         `_resized.${image.file.name.split('.').pop()}`)
ResizedName(name) ==
  LET k == ExtensionMatch(name)
  IN  IF k = 0 THEN name
      ELSE SubSeq(name, 1, k - 1)
             \o ExpandReplacement(StrResized \o PopAfterDot(name))

NameChars == {"a", ".", "$"}

\* The names of the files: every text of 1 .. MaxName characters, and
\* photo.jpg.
FileNames ==
  (SeqsUpTo(NameChars, MaxName) \ {<<>>}) \cup {StrPhoto \o <<".">> \o StrJpg}

\* The download of a completed item of single mode was requested.
NameInit ==
  /\ PageInit
  /\ impl \in Impls
  /\ tiler = TilerIdle
  /\ geom = GeomIdle
  /\ zip = ZipIdle
  /\ intake = IntakeIdle
  /\ exports = ExportsIdle
  /\ \E name \in FileNames :
       naming = [NamingIdle EXCEPT !.phase = "requested", !.name = name]

\* handleDownloadImage / handleDownloadAll: const filename = ...
ComputeFilename ==
  /\ naming.phase = "requested"
  /\ naming' = [naming EXCEPT !.phase = "named",
                              !.filename = ResizedName(naming.name)]
  /\ UNCHANGED <<pageVars, impl, tiler, geom, zip, intake, exports>>

NameNext == ComputeFilename

NameSpec == NameInit /\ [][NameNext]_vars

\* ---- what the preview says about the output ------------------------------

\* ImagePreview, for a completed item: "2050×2994" in single mode and
\* "9 partes de 2050×2994" in mosaic mode, whatever the item holds.
PreviewLabel == [width |-> 2050, height |-> 2994, parts |-> 9]

\* ---- the ways files enter the queue -------------------------------------

DropzoneMaxFiles == 100   \* maxFiles = 100

StrTextPlain == <<"t", "e", "x", "t", "/", "p", "l", "a", "i", "n">>

\* file.type of the files a user can drop or pick: images, a text file, and
\* a file whose type the browser does not know.
DeclaredTypes == {MediaType(StrJpeg), MediaType(StrPng), StrTextPlain, <<>>}

\* s.startsWith(prefix)
StartsWith(s, prefix) ==
  Len(s) >= Len(prefix) /\ SubSeq(s, 1, Len(prefix)) = prefix

\* Array.from(files).filter(file => file.type.startsWith('image/'))
ImageFiles(files) == SelectSeq(files, LAMBDA t : StartsWith(t, MediaType(<<>>)))

\* The selections of 1 .. MaxBatch files.
Selections == SeqsUpTo(DeclaredTypes, MaxBatch) \ {<<>>}

\* Selections of about maxFiles files: one image type repeated, with or
\* without one other file before and after.
LargeSelections ==
  { pre \o Repeat(t, n) \o post :
      pre \in SeqsUpTo(DeclaredTypes, 1), post \in SeqsUpTo(DeclaredTypes, 1),
      t \in {MediaType(StrJpeg), MediaType(StrPng)},
      n \in (DropzoneMaxFiles - 1) .. (DropzoneMaxFiles + 1) }

\* What can be dropped on the drop zone or picked in its file dialog.
DropSelections == Selections \cup LargeSelections

IntakeInit ==
  /\ PageInit
  /\ impl \in Impls
  /\ tiler = TilerIdle
  /\ geom = GeomIdle
  /\ zip = ZipIdle
  /\ naming = NamingIdle
  /\ exports = ExportsIdle
  /\ intake = IntakeIdle

\* handleFilesAdded as the intake sees it: setImages(prev => [...prev,
\* ...newImages]) and the toast.
FilesAdded(files) == [queue |-> intake.queue \o files, toast |-> "added"]

\* A drop zone that forwards the first maxFiles images of a selection that
\* has more.
DropzoneAcceptsTruncating(files) ==
  LET imageFiles == ImageFiles(files)
  IN  IF Len(imageFiles) = 0 THEN [intake EXCEPT !.toast = "onlyImages"]
      ELSE IF Len(imageFiles) > DropzoneMaxFiles
           THEN FilesAdded(SubSeq(imageFiles, 1, DropzoneMaxFiles))
           ELSE FilesAdded(imageFiles)

\* What handleDrop and handleFileInputChange do with the files given.
DropzoneAccepts(files) ==
  LET imageFiles == ImageFiles(files)
  IN  IF Len(imageFiles) = 0 THEN [intake EXCEPT !.toast = "onlyImages"]
      ELSE IF Len(imageFiles) > DropzoneMaxFiles
           THEN [intake EXCEPT !.toast = "tooMany"]
           ELSE FilesAdded(imageFiles)

\* ImageDropzone.handleDrop: the drop zone is rendered while the queue is
\* empty.
handleDrop(files) ==
  /\ Len(intake.queue) = 0
  /\ intake' = DropzoneAccepts(files)
  /\ UNCHANGED <<pageVars, impl, tiler, geom, zip, naming, exports>>

\* ImageDropzone.handleFileInputChange
handleFileInputChange(files) ==
  /\ Len(intake.queue) = 0
  /\ intake' = DropzoneAccepts(files)
  /\ UNCHANGED <<pageVars, impl, tiler, geom, zip, naming, exports>>

\* The onChange of the add-more input, rendered while the queue is not
\* empty: handleFilesAdded(Array.from(e.target.files)).  The accept
\* attribute of the input does not keep the user from picking other files.
AddMoreChange(files) ==
  /\ Len(intake.queue) > 0
  /\ Len(intake.queue) + Len(files) <= MaxFiles
  /\ intake' = FilesAdded(files)
  /\ UNCHANGED <<pageVars, impl, tiler, geom, zip, naming, exports>>

\* handleReset / handleRemoveImage of the last item: back to the drop zone.
IntakeEmptied ==
  /\ Len(intake.queue) > 0
  /\ intake' = [queue |-> <<>>, toast |-> "reset"]
  /\ UNCHANGED <<pageVars, impl, tiler, geom, zip, naming, exports>>

IntakeNext ==
  \/ \E files \in DropSelections : handleDrop(files)
  \/ \E files \in DropSelections : handleFileInputChange(files)
  \/ \E files \in Selections : AddMoreChange(files)
  \/ IntakeEmptied

IntakeSpec == IntakeInit /\ [][IntakeNext]_vars

\* ---- downloads ----------------------------------------------------------

\* The items the queue can hold when a download is requested: waiting,
\* being processed, failed, converted to one image, or cut into tiles.
ExportItems(f) ==
  { NewItem(f),
    [NewItem(f) EXCEPT !.status = "processing"],
    [NewItem(f) EXCEPT !.status = "error"],
    MarkConverted(<<NewItem(f)>>, 1, f, ObjectUrl(f, 1))[1],
    MarkMosaic(<<NewItem(f)>>, 1, f, PieceCount, ObjectUrl(f, 1))[1] }

ExportQueues ==
  UNION { { q \in [1 .. n -> UNION { ExportItems(f) : f \in 1 .. n }] :
              \A i \in 1 .. n : q[i].file = i } : n \in 0 .. MaxExportQueue }

ExportInit ==
  /\ images \in ExportQueues
  /\ mosaicMode \in BOOLEAN
  /\ isProcessing = FALSE
  /\ hfa = [isProcessing |-> FALSE, mosaicMode |-> mosaicMode]
  /\ runs = <<>>
  /\ nextFile = Len(images) + 1
  /\ rendered = [f \in FileIds |-> IF f <= Len(images) THEN 1 ELSE 0]
  /\ toast = "none"
  /\ revoked = {}
  /\ created = HeldUrls(images, DOMAIN images)
  /\ impl \in Impls
  /\ tiler = TilerIdle
  /\ geom = GeomIdle
  /\ zip = ZipIdle
  /\ naming = NamingIdle
  /\ intake = IntakeIdle
  /\ exports = ExportsIdle

PendingExports == Len(exports.timers) + Len(exports.zips)

\* downloadBlobsAsZip(image.mosaicPieces, baseFilename) has been called and
\* its promise is pending.
ZipStarted(image) == Append(exports.zips, image)

\* handleDownloadImage(index)
handleDownloadImage(index) ==
  /\ index \in DOMAIN images
  /\ LET image == images[index]
     IN  IF image.status # "completed"
         THEN /\ toast' = "notReady"
              /\ exports' = exports
         ELSE IF mosaicMode /\ image.mosaicPieces.n > 0
         THEN /\ PendingExports < MaxExports
              /\ exports' = [exports EXCEPT !.zips = ZipStarted(image)]
              /\ toast' = toast
         ELSE IF image.convertedBlob # 0
         THEN /\ exports' = [exports EXCEPT
                               !.last = [file |-> image.file, kind |-> "blob",
                                         data |-> image.convertedBlob]]
              /\ toast' = "downloaded"
         ELSE /\ toast' = "unavailable"
              /\ exports' = exports
  /\ UNCHANGED <<images, isProcessing, mosaicMode, hfa, runs, nextFile,
                 rendered, revoked, created, impl, tiler, geom, zip, naming,
                 intake>>

\* The setTimeout calls of handleDownloadAll for completedImages: position
\* k of the list (index k - 1) gets a blob download after (k - 1) * 100 ms,
\* or in mosaic mode a packaging after (k - 1) * 1000 ms; an item without
\* the output asked for is skipped.
DownloadTimers(completedImages, mosaic) ==
  LET timer(k) ==
        LET image == completedImages[k]
        IN  IF mosaic /\ image.mosaicPieces.n > 0
            THEN [kind |-> "zip", image |-> image, delay |-> (k - 1) * 1000]
            ELSE IF image.convertedBlob # 0
            THEN [kind |-> "blob", image |-> image, delay |-> (k - 1) * 100]
            ELSE [kind |-> "none", image |-> image, delay |-> 0]
  IN  SelectSeq([k \in DOMAIN completedImages |-> timer(k)],
                LAMBDA t : t.kind # "none")

\* handleDownloadAll
handleDownloadAll ==
  LET completedImages == SelectSeq(images, LAMBDA img : img.status = "completed")
  IN  /\ IF Len(completedImages) = 0
         THEN /\ toast' = "noneReady"
              /\ exports' = exports
         ELSE /\ PendingExports + Len(completedImages) <= MaxExports
              /\ exports' = [exports EXCEPT !.timers =
                               @ \o DownloadTimers(completedImages, mosaicMode)]
              /\ toast' = IF mosaicMode THEN "mosaicsWillDownload"
                          ELSE "imagesDownloaded"
      /\ UNCHANGED <<images, isProcessing, mosaicMode, hfa, runs, nextFile,
                     rendered, revoked, created, impl, tiler, geom, zip,
                     naming, intake>>

\* A timeout set earlier with a delay that is not longer runs first; the
\* time between two clicks is not modelled.
TimerDue(k) ==
  /\ k \in DOMAIN exports.timers
  /\ \A j \in 1 .. (k - 1) : exports.timers[j].delay > exports.timers[k].delay

\* One setTimeout callback of handleDownloadAll runs, with the item it
\* captured when the button was clicked.
DownloadTimerFires(k) ==
  /\ TimerDue(k)
  /\ LET t == exports.timers[k]
     IN  exports' =
           IF t.kind = "zip"
           THEN [exports EXCEPT !.timers = RemoveAt(@, k),
                                !.zips = ZipStarted(t.image)]
           ELSE [exports EXCEPT !.timers = RemoveAt(@, k),
                                !.last = [file |-> t.image.file, kind |-> "blob",
                                          data |-> t.image.convertedBlob]]
  /\ UNCHANGED <<pageVars, impl, tiler, geom, zip, naming, intake>>

\* A packaging whose failure also marks the item as failed.
ZipSettlesReverting(k, ok) ==
  /\ k \in DOMAIN exports.zips
  /\ LET image == exports.zips[k]
     IN  /\ exports' = [exports EXCEPT
                          !.zips = RemoveAt(@, k),
                          !.last = [file |-> image.file,
                                    kind |-> IF ok THEN "zip" ELSE "failed",
                                    data |-> image.mosaicPieces.src]]
         /\ toast' = IF ok THEN "mosaicDownloaded" ELSE "mosaicFailed"
         /\ images' = IF ok THEN images
                      ELSE [i \in DOMAIN images |->
                              IF images[i].file = image.file
                              THEN [images[i] EXCEPT !.status = "error"]
                              ELSE images[i]]
  /\ UNCHANGED <<isProcessing, mosaicMode, hfa, runs, nextFile,
                 rendered, revoked, created, impl, tiler, geom, zip, naming,
                 intake>>

\* The promise of downloadBlobsAsZip settles: .then shows the success
\* toast, .catch the failure toast.
ZipSettles(k, ok) ==
  /\ k \in DOMAIN exports.zips
  /\ LET image == exports.zips[k]
     IN  /\ exports' = [exports EXCEPT
                          !.zips = RemoveAt(@, k),
                          !.last = [file |-> image.file,
                                    kind |-> IF ok THEN "zip" ELSE "failed",
                                    data |-> image.mosaicPieces.src]]
         /\ toast' = IF ok THEN "mosaicDownloaded" ELSE "mosaicFailed"
         /\ images' = images
  /\ UNCHANGED <<isProcessing, mosaicMode, hfa, runs, nextFile,
                 rendered, revoked, created, impl, tiler, geom, zip, naming,
                 intake>>

ExportNext ==
  \/ \E index \in 1 .. MaxExportQueue : handleDownloadImage(index)
  \/ handleDownloadAll
  \/ \E k \in 1 .. MaxExports : DownloadTimerFires(k)
  \/ \E k \in 1 .. MaxExports, ok \in BOOLEAN : ZipSettles(k, ok)
  \/ \E index \in 1 .. MaxExportQueue : handleRemoveImage(index)

ExportSpec == ExportInit /\ [][ExportNext]_vars

\* ---- helpers of the properties ------------------------------------------

ItemOf(imgs, f) == imgs[CHOOSE i \in DOMAIN imgs : imgs[i].file = f]

SameOutputs(a, b) ==
  a.convertedBlob = b.convertedBlob /\ a.mosaicPieces = b.mosaicPieces

LegalMove(a, b) ==
  \/ a = b
  \/ a = "idle" /\ b = "processing"
  \/ a = "processing" /\ b \in Terminal

\* The files that stay in the queue over the step.
Staying == QueueFiles(images) \cap QueueFiles(images')

\* ---- C1 -----------------------------------------------------------------
\* C1: over every step, an item that stays in the queue keeps its status or
\* moves idle -> processing or processing -> completed/error; an item that is
\* completed or error is not handed to a render again.
C1_StatusLifecycle ==
  [][\A f \in Staying :
       /\ LegalMove(ItemOf(images, f).status, ItemOf(images', f).status)
       /\ ItemOf(images, f).status \in Terminal => rendered'[f] = rendered[f]]_vars

\* ---- C2 -----------------------------------------------------------------
\* C2: when the render of file f rejects, f (if still queued) becomes error,
\* every other queued item keeps its outputs and its status (except that the
\* file whose render the run starts next becomes processing), and when the
\* run has a later pending item its render is started in the same step.
C2_FailureIsolated ==
  [][\A k \in DOMAIN runs : \A o \in Outcomes(impl, runs[k].mosaic) :
       (Settle(k, o) /\ ~o.ok) =>
         LET f == runs[k].pend[1].file
             rest == Tail(runs[k].pend)
         IN  /\ f \in Staying => ItemOf(images', f).status = "error"
             /\ \A g \in Staying \ {f} :
                  /\ SameOutputs(ItemOf(images, g), ItemOf(images', g))
                  /\ \/ ItemOf(images', g).status = ItemOf(images, g).status
                     \/ /\ rest # <<>> /\ g = rest[1].file
                        /\ ItemOf(images, g).status = "idle"
                        /\ ItemOf(images', g).status = "processing"
             /\ rest # <<>> => rendered'[rest[1].file] = rendered[rest[1].file] + 1]_vars

\* ---- C3 -----------------------------------------------------------------
\* C3: at most one render is outstanding, no file is rendered twice, and a
\* handleFilesAdded call made while a run is in flight starts no render and
\* changes no status of the items already queued.
C3_OneRenderAtATime ==
  /\ [](Len(runs) <= 1 /\ \A f \in FileIds : rendered[f] <= 1)
  /\ [][\A n \in 1 .. MaxBatch :
          (handleFilesAdded(n) /\ runs # <<>>) =>
            /\ runs' = runs
            /\ rendered' = rendered
            /\ \A i \in DOMAIN images : images'[i] = images[i]]_vars

\* ---- C4 -----------------------------------------------------------------
\* C4: once every render has settled and no run is left in flight, every
\* queued item is completed or error (nothing but a further enqueue could
\* move an item that is not).
C4_EveryItemSettles ==
  runs = <<>> => \A i \in DOMAIN images : images[i].status \in Terminal

\* ---- C5 -----------------------------------------------------------------
\* C5: the queue is in arrival order, and an item has left idle only when
\* every item before it in the queue is completed or error.
C5_FifoOrder ==
  \A i \in DOMAIN images : \A j \in DOMAIN images :
    i < j =>
      /\ images[i].file < images[j].file
      /\ images[j].status # "idle" => images[i].status \in Terminal

\* ---- C6 -----------------------------------------------------------------
\* C6: when a render settles whose item is no longer in the queue, no queued
\* item receives an output and none becomes completed or error (the item of
\* the next render may become processing).
C6_RemovedResultDiscarded ==
  [][\A k \in DOMAIN runs : \A o \in Outcomes(impl, runs[k].mosaic) :
       (Settle(k, o) /\ runs[k].pend[1].file \notin QueueFiles(images)) =>
         \A g \in Staying :
           /\ SameOutputs(ItemOf(images, g), ItemOf(images', g))
           /\ \/ ItemOf(images', g).status = ItemOf(images, g).status
              \/ ItemOf(images', g).status = "processing"]_vars

\* ---- C7 -----------------------------------------------------------------
\* C7: a completed item holds the output of the current mode: 9 mosaic
\* pieces in mosaic mode, one converted buffer in single mode.
C7_OutputsMatchMode ==
  \A i \in DOMAIN images :
    images[i].status = "completed" =>
      IF mosaicMode
      THEN images[i].mosaicPieces.n = PieceCount /\ images[i].convertedBlob = 0
      ELSE images[i].convertedBlob # 0 /\ images[i].mosaicPieces = NoPieces

\* ---- C8 -----------------------------------------------------------------
\* C8: a mode change requested while the queue holds an item is rejected and
\* leaves mode and queue unchanged; the mode changes only when the queue is
\* empty.
C8_ModeChangeRejected ==
  [][/\ \A enabled \in BOOLEAN :
          (handleMosaicModeChange(enabled) /\ Len(images) > 0) =>
            (toast' = "modeRejected" /\ mosaicMode' = mosaicMode /\ images' = images)
     /\ mosaicMode' # mosaicMode => Len(images) = 0]_vars

\* A mode change was rejected on a queue that holds an item.
C8_Witness == toast = "modeRejected" /\ Len(images) > 0

\* ---- C9 -----------------------------------------------------------------
\* C9: the mode changes only when the queue is empty and no run is in flight.
C9_ModeFixedWhileBusy ==
  [][mosaicMode' # mosaicMode => (Len(images) = 0 /\ runs = <<>>)]_vars

\* ---- C10 ----------------------------------------------------------------
\* C10: createMosaicPieces resolves only with 9 pieces, so every completed
\* item that holds mosaic pieces holds exactly 9.
C10_NinePieces ==
  \A i \in DOMAIN images :
    (images[i].status = "completed" /\ images[i].mosaicPieces # NoPieces) =>
      images[i].mosaicPieces.n = PieceCount

\* ---- C11 ----------------------------------------------------------------
\* C11: when createMosaicPieces resolves, element i of the array (0-based) is
\* the tile of row i div 3, column i mod 3, i.e. the tile whose display
\* number row*3+col+1 is the number i+1 of its exported entry _parte_{i+1}.
C11_RowMajorOrder ==
  TilerResolved =>
    \A i \in 0 .. (Len(tiler.pieces) - 1) :
      LET t == tiler.pieces[i + 1]
          row == t \div 3
          col == t % 3
      IN  row = i \div 3 /\ col = i % 3 /\ row * 3 + col + 1 = i + 1

\* C12: the nine tiles partition the composite without loss: each tile is
\* pieceW x pieceH, the source rectangles are pairwise disjoint and cover the
\* 3*pieceW x 3*pieceH composite, and the pixel (x mod pieceW, y mod pieceH)
\* of tile (y div pieceH, x div pieceW) is the composite pixel (x, y).
\* Pixels are compared on every tile at the coordinates in Probe: all of a
\* small tile, and the corners of a large tile and of the label rectangle.
Min(a, b) == IF a < b THEN a ELSE b

Probe(n, from, len) ==
  ((0 .. (Min(n, SmallPiece + 1) - 1))
     \cup {from - 1, from, from + len - 1, from + len, n - 1}) \cap (0 .. (n - 1))

RectsDisjoint(a, b) ==
  \/ a.srcX + a.width <= b.srcX \/ b.srcX + b.width <= a.srcX
  \/ a.srcY + a.height <= b.srcY \/ b.srcY + b.height <= a.srcY

RectInside(a, totalW, totalH) ==
  /\ a.srcX >= 0 /\ a.srcY >= 0
  /\ a.srcX + a.width <= totalW /\ a.srcY + a.height <= totalH

C12_LosslessPartition ==
  geom.phase = "tiled" =>
    LET pw == geom.pw
        ph == geom.ph
    IN  /\ \A t \in Tiles : geom.tiles[t].width = pw /\ geom.tiles[t].height = ph
        /\ \A t, u \in Tiles : t # u => RectsDisjoint(geom.tiles[t], geom.tiles[u])
        \* disjoint rectangles inside the composite whose areas add up to
        \* the composite's cover it
        /\ \A t \in Tiles : RectInside(geom.tiles[t], 3 * pw, 3 * ph)
        /\ PieceCount * (pw * ph) = (3 * pw) * (3 * ph)
        /\ \A row \in 0 .. 2, col \in 0 .. 2 :
             \A tx \in Probe(pw, LabelX, LabelW), ty \in Probe(ph, LabelY, LabelH) :
               LET x == col * pw + tx
                   y == row * ph + ty
               IN  /\ y \div ph = row /\ x \div pw = col
                   /\ x % pw = tx /\ y % ph = ty
                   /\ TilePixel(impl, row, col, tx, ty, pw, ph) = CompositePixel(x, y)

\* C13: the canvas of convertImage is horizontalWidth x round(verticalHeight*h/w)
\* for w > h and round(horizontalWidth*w/h) x verticalHeight for w <= h, round
\* being the nearest integer with halves up; 4000x3000 with 2050/2994 gives
\* 2050x2246.
IsRoundOf(n, num, den) == 2 * n * den <= 2 * num + den /\ 2 * num + den < 2 * (n + 1) * den

C13_CanvasSize ==
  geom.phase = "converted" =>
    /\ geom.w > geom.h =>
         /\ geom.conv.canvasW = geom.pw
         /\ IsRoundOf(geom.conv.canvasH, geom.ph * geom.h, geom.w)
    /\ (geom.w <= geom.h /\ geom.h > 0) =>
         /\ IsRoundOf(geom.conv.canvasW, geom.pw * geom.w, geom.h)
         /\ geom.conv.canvasH = geom.ph
    /\ (geom.w = 4000 /\ geom.h = 3000 /\ geom.pw = 2050 /\ geom.ph = 2994) =>
         (geom.conv.canvasW = 2050 /\ geom.conv.canvasH = 2246)

C13_Witness ==
  /\ geom.phase = "converted"
  /\ geom.w = 4000 /\ geom.h = 3000 /\ geom.pw = HorizontalWidth /\ geom.ph = VerticalHeight
  /\ geom.conv.canvasW = 2050 /\ geom.conv.canvasH = 2246

\* C14: convertImage draws the image at a size with the source's aspect ratio,
\* up to the rounding of one dimension:
\* |targetWidth*h - targetHeight*w| <= max(w, h) / 2.
C14_AspectRatioKept ==
  (geom.phase = "converted" /\ geom.w > 0 /\ geom.h > 0) =>
    LET cross == Abs(geom.conv.targetWidth * geom.h - geom.conv.targetHeight * geom.w)
        longer == IF geom.w > geom.h THEN geom.w ELSE geom.h
    IN  2 * cross <= longer

\* C15: createMosaicPieces scales by max(3*pieceW/w, 3*pieceH/h): the scaled
\* image is at least the composite on both axes and exactly the composite on
\* the limiting axis, both offsets are <= 0 and at least one is 0; 1000x1000
\* with 2050x2994 pieces gives composite 6150x8982, scaled 8982x8982 and
\* offsets (-1416, 0).
AtLeast(v, total) ==
  \/ v.num > total * v.den
  \/ v.num = total * v.den /\ v.drift >= 0

Exactly(v, n) == v.exact /\ v.num = n * v.den /\ v.drift = 0

C15_CoverScale ==
  (geom.phase = "tiled" /\ geom.w > 0 /\ geom.h > 0) =>
    LET m == geom.mos
    IN  /\ m.scale.num * geom.w >= m.totalWidth * m.scale.den
        /\ m.scale.num * geom.h >= m.totalHeight * m.scale.den
        /\ \/ m.scale.num * geom.w = m.totalWidth * m.scale.den
           \/ m.scale.num * geom.h = m.totalHeight * m.scale.den
        /\ AtLeast(m.scaledWidth, m.totalWidth)
        /\ AtLeast(m.scaledHeight, m.totalHeight)
        /\ \/ Exactly(m.scaledWidth, m.totalWidth)
           \/ Exactly(m.scaledHeight, m.totalHeight)
        /\ SignOf(m.x) <= 0 /\ SignOf(m.y) <= 0
        /\ SignOf(m.x) = 0 \/ SignOf(m.y) = 0
        /\ (geom.w = 1000 /\ geom.h = 1000 /\ geom.pw = 2050 /\ geom.ph = 2994) =>
             /\ m.totalWidth = 6150 /\ m.totalHeight = 8982
             /\ Exactly(m.scaledWidth, 8982) /\ Exactly(m.scaledHeight, 8982)
             /\ m.x.num = (0 - 1416) * m.x.den /\ m.x.drift = 0
             /\ m.y.num = 0 /\ m.y.drift = 0

\* C16: removing an item is possible in every status and with or without a run
\* in flight; it deletes exactly the item at the given position, revokes that
\* item's result URL if it has one, and leaves the other items' order,
\* statuses and outputs as they were.
C16_RemoveFrame ==
  /\ [](\A index \in DOMAIN images : ENABLED handleRemoveImage(index))
  /\ [][\A index \in DOMAIN images :
          handleRemoveImage(index) =>
            /\ Len(images') = Len(images) - 1
            /\ \A j \in 1 .. (index - 1) : images'[j] = images[j]
            /\ \A j \in index .. Len(images') : images'[j] = images[j + 1]
            /\ revoked' = revoked \cup
                 (IF images[index].convertedUrl # NoUrl
                  THEN {images[index].convertedUrl} ELSE {})]_vars

\* An item was removed while a run was in flight and older items stay in the
\* queue (so no reset has happened since): its URL has been revoked.
C16_Witness ==
  /\ isProcessing /\ runs # <<>>
  /\ \E u \in revoked : \E i \in DOMAIN images :
       /\ images[i].file < u[1]
       /\ \A j \in DOMAIN images : images[j].file # u[1]
  /\ \E i \in DOMAIN images : images[i].status = "processing"
  /\ \E i \in DOMAIN images : images[i].status = "completed"

\* C17: after reset the queue is empty, every URL an item held is revoked,
\* and no processing run remains in flight.
C17_ResetEmpties ==
  [][handleReset =>
       /\ images' = <<>>
       /\ HeldUrls(images, DOMAIN images) \subseteq revoked'
       /\ runs' = <<>>
       /\ ~isProcessing']_vars

\* C18: downloadBlobsAsZip adds one entry per buffer; entry i (from 0) is
\* named {baseFilename}_parte_{i+1}.{ext}, ext being the text after '/' in the
\* buffer's media type, or jpg when there is none; the names are pairwise
\* distinct and the archive is named {baseFilename}_mosaico.zip.
SubtypeOf(type) ==
  IF \E k \in DOMAIN type : type[k] = "/"
  THEN LET k == CHOOSE k \in DOMAIN type :
                  type[k] = "/" /\ \A j \in 1 .. (k - 1) : type[j] # "/"
       IN  SubSeq(type, k + 1, Len(type))
  ELSE <<>>

DecimalOk(d, n) ==
  /\ Len(d) = (IF n < 10 THEN 1 ELSE IF n < 100 THEN 2 ELSE 3)
  /\ \A k \in DOMAIN d : \E v \in 0 .. 9 :
       /\ d[k] = DigitChars[v + 1]
       /\ v = (CASE k = Len(d) -> n % 10
                 [] k = Len(d) - 1 -> (n \div 10) % 10
                 [] OTHER -> (n \div 100) % 10)

C18_ZipNaming ==
  /\ zip.phase \in {"generating", "downloaded"} =>
       /\ Len(zip.entries) = Len(zip.blobs)
       /\ \A i \in 0 .. (Len(zip.blobs) - 1) :
            LET name == zip.entries[i + 1].name
                ext == IF SubtypeOf(zip.blobs[i + 1]) = <<>> THEN StrJpg
                       ELSE SubtypeOf(zip.blobs[i + 1])
                nb == Len(zip.base)
                nd == Len(name) - nb - Len(StrParte) - 1 - Len(ext)
            IN  /\ zip.entries[i + 1].blob = i
                /\ nd >= 1
                /\ SubSeq(name, 1, nb) = zip.base
                /\ SubSeq(name, nb + 1, nb + Len(StrParte)) = StrParte
                /\ DecimalOk(SubSeq(name, nb + Len(StrParte) + 1,
                                    nb + Len(StrParte) + nd), i + 1)
                /\ name[nb + Len(StrParte) + nd + 1] = "."
                /\ SubSeq(name, nb + Len(StrParte) + nd + 2, Len(name)) = ext
       /\ \A i, j \in DOMAIN zip.entries :
            i # j => zip.entries[i].name # zip.entries[j].name
  /\ zip.phase = "downloaded" => zip.download = zip.base \o StrMosaico

\* An archive of two buffers, the first of a media type without a subtype,
\* has been downloaded.
C18_Witness ==
  /\ zip.phase = "downloaded"
  /\ zip.blobs = <<MediaType(<<>>), MediaType(StrWebp)>>
  /\ zip.entries[1].name = zip.base \o StrParte \o <<"1", ".">> \o StrJpg
  /\ zip.entries[2].name = zip.base \o StrParte \o <<"2", ".">> \o StrWebp

\* C19 as stated: the nine tiles of a JPEG source (type image/jpeg, or empty)
\* packaged with base name "photo" give the entries photo_parte_1.jpg ...
\* photo_parte_9.jpg inside photo_mosaico.zip.
JpegTilesPackaged ==
  /\ zip.phase = "downloaded"
  /\ zip.source \in {MediaType(StrJpeg), <<>>}
  /\ Len(zip.blobs) = PieceCount
  /\ zip.base = StrPhoto

C19_JpgEntries ==
  JpegTilesPackaged =>
    /\ Len(zip.entries) = PieceCount
    /\ \A i \in 1 .. PieceCount :
         zip.entries[i].name =
           StrPhoto \o StrParte \o <<DigitChars[i + 1]>> \o <<".">> \o StrJpg
    /\ zip.download = StrPhoto \o StrMosaico

\* C19 amended: the entries are photo_parte_1.jpeg ... photo_parte_9.jpeg
\* inside photo_mosaico.zip.
C19_JpegEntries ==
  JpegTilesPackaged =>
    /\ Len(zip.entries) = PieceCount
    /\ \A i \in 1 .. PieceCount :
         zip.entries[i].name =
           StrPhoto \o StrParte \o <<DigitChars[i + 1]>> \o <<".">> \o StrJpeg
    /\ zip.download = StrPhoto \o StrMosaico

C19_Witness ==
  /\ JpegTilesPackaged
  /\ zip.source = <<>>
  /\ zip.entries[PieceCount].name =
       <<"p", "h", "o", "t", "o", "_", "p", "a", "r", "t", "e", "_", "9", ".",
         "j", "p", "e", "g">>

\* C20: a download is triggered only for a non-empty buffer list and an
\* archive of non-zero size; an empty list fails before any archive is built,
\* a zero-length archive fails too, and neither triggers a download.
C20_NoEmptyDownload ==
  /\ zip.phase = "downloaded" => Len(zip.blobs) > 0 /\ zip.size > 0
  /\ (zip.phase \notin {"called"} /\ Len(zip.blobs) = 0) =>
       zip.phase = "threw" /\ ~zip.built /\ zip.download = <<>>
  /\ zip.phase = "threw" => zip.download = <<>>

\* C25: in every reachable state the output stored on a completed item
\* (convertedBlob or mosaicPieces) was rendered from that item's own file.
C25_OutputFromOwnFile ==
  \A i \in DOMAIN images :
    images[i].status = "completed" =>
      /\ images[i].convertedBlob \in {0, images[i].file}
      /\ images[i].mosaicPieces.src \in {0, images[i].file}

\* C26: at most one queued item is processing, and when no run is in flight
\* no item is processing.
C26_OneProcessing ==
  /\ Cardinality({i \in DOMAIN images : images[i].status = "processing"}) <= 1
  /\ (runs = <<>> /\ ~isProcessing) =>
       \A i \in DOMAIN images : images[i].status # "processing"

\* C27: every object URL created for a render result is held by exactly one
\* queued item or has been revoked; once no run is in flight and the queue is
\* empty, no result URL is left unrevoked.
Holders(u) == {i \in DOMAIN images : images[i].convertedUrl = u}

C27_UrlsOwnedOrRevoked ==
  /\ \A u \in created : u \in revoked \/ Cardinality(Holders(u)) = 1
  /\ (runs = <<>> /\ images = <<>>) => created \subseteq revoked

\* C30: createMosaicPieces settles exactly once: when the image has loaded
\* and all 9 encode callbacks have run the promise is resolved or rejected,
\* whatever the mix of successful and failed encodes; it is never resolved
\* while a callback is still outstanding, and once settled its outcome does
\* not change.
C30_SettlesOnce ==
  /\ [](tiler.phase = "done" => tiler.st.settled)
  /\ []((tiler.st.settled /\ tiler.st.ok) =>
          (tiler.phase = "done" /\ tiler.pending = {}))
  /\ [][tiler.st.settled =>
          /\ tiler'.st.settled
          /\ tiler'.st.ok = tiler.st.ok
          /\ tiler'.st.n = tiler.st.n]_vars

\* All 9 callbacks have run, some with a blob and some without, and the
\* promise is settled.
C30_Witness ==
  /\ tiler.phase = "done" /\ tiler.pending = {}
  /\ Len(tiler.pieces) \in 1 .. (PieceCount - 1)
  /\ tiler.st.settled

\* C24: a source whose width or height is zero (img.width and img.height are
\* never negative or non-finite) is rejected before any canvas size is
\* computed: neither convertImage nor createMosaicPieces sizes a canvas or
\* draws from such dimensions.
C24_InvalidDimensionsRejected ==
  (geom.w <= 0 \/ geom.h <= 0) => geom.phase \notin {"converted", "tiled"}

\* C28: for every source of positive width and height the canvas of
\* convertImage is at least 1 pixel wide and 1 pixel high.
C28_CanvasAtLeastOnePixel ==
  (geom.phase = "converted" /\ geom.w > 0 /\ geom.h > 0) =>
    (geom.conv.canvasW >= 1 /\ geom.conv.canvasH >= 1)

C23_ResizedName ==
  naming.phase = "named" =>
    LET name == naming.name
        dot == IF \E k \in DOMAIN name : name[k] = "."
               THEN CHOOSE k \in DOMAIN name :
                      name[k] = "." /\ \A j \in DOMAIN name : name[j] = "." => j <= k
               ELSE Len(name) + 1
        stem == SubSeq(name, 1, dot - 1)
        ext == SubSeq(name, dot + 1, Len(name))
    IN  /\ naming.filename = stem \o StrResized \o ext
        /\ naming.filename # name

\* C22: every item of the queue has a source whose declared media type
\* begins with "image/": on each path into the queue a file of another
\* declared type is rejected.
C22_OnlyImagesQueued ==
  \A i \in DOMAIN intake.queue :
    /\ Len(intake.queue[i]) >= 6
    /\ SubSeq(intake.queue[i], 1, 6) = <<"i", "m", "a", "g", "e", "/">>

\* A step of a download: a click on a download button, a download timer,
\* or the end of a packaging.
ExportStep ==
  \/ \E index \in 1 .. MaxExportQueue : handleDownloadImage(index)
  \/ handleDownloadAll
  \/ \E k \in 1 .. MaxExports : DownloadTimerFires(k)
  \/ \E k \in 1 .. MaxExports, ok \in BOOLEAN : ZipSettles(k, ok)

\* C21: a download or packaging, whether it succeeds or fails, changes
\* neither the queue nor any item's status or outputs; after a failed
\* packaging the item, if still in the queue, is completed and has its tiles.
C21_ExportKeepsQueue ==
  [][ExportStep =>
       /\ images' = images
       /\ exports'.last.kind = "failed" =>
            \A i \in DOMAIN images' :
              images'[i].file = exports'.last.file =>
                /\ images'[i].status = "completed"
                /\ images'[i].mosaicPieces.n > 0]_vars

\* A packaging has failed and its item is in the queue, completed, with its
\* tiles.
C21_Witness ==
  /\ exports.last.kind = "failed"
  /\ toast = "mosaicFailed"
  /\ \E i \in DOMAIN images :
       /\ images[i].file = exports.last.file
       /\ images[i].status = "completed"
       /\ images[i].mosaicPieces.n = PieceCount

\* handleDownloadImage(index) has started a download: a buffer has gone to
\* the browser or a packaging has been started.
DownloadStarted(index) ==
  /\ handleDownloadImage(index)
  /\ exports' # exports

\* C31: handleDownloadImage starts a download only for a completed item, and
\* what it downloads is the item's own stored output: in mosaic mode its
\* pieces as one zip, in single mode its converted buffer.
C31_DownloadsOwnOutput ==
  [][\A index \in 1 .. MaxExportQueue :
       DownloadStarted(index) =>
         /\ images[index].status = "completed"
         /\ IF mosaicMode
            THEN /\ images[index].mosaicPieces.n > 0
                 /\ exports'.zips = Append(exports.zips, images[index])
                 /\ exports'.last = exports.last
            ELSE /\ images[index].convertedBlob # 0
                 /\ exports'.zips = exports.zips
                 /\ exports'.last = [file |-> images[index].file, kind |-> "blob",
                                     data |-> images[index].convertedBlob]]_vars

\* The positions of a selection that hold image files.
ImagePositions(files) ==
  { i \in DOMAIN files :
      /\ Len(files[i]) >= 6
      /\ SubSeq(files[i], 1, 6) = <<"i", "m", "a", "g", "e", "/">> }

\* The rank of position i among the positions of a set: 1 for the first.
RankIn(positions, i) == Cardinality({j \in positions : j <= i})

\* C32: the drop zone forwards a selection only if, with the files that are
\* not images left out, between 1 and maxFiles files remain, and then it
\* forwards exactly the image files in the order of the selection; a
\* selection with more than maxFiles images is rejected whole.
C32_DropzoneForwards ==
  [][\A files \in DropSelections :
       (handleDrop(files) \/ handleFileInputChange(files)) =>
         LET positions == ImagePositions(files)
             count == Cardinality(positions)
         IN  IF count >= 1 /\ count <= DropzoneMaxFiles
             THEN /\ Len(intake'.queue) = count
                  /\ \A i \in positions :
                       intake'.queue[RankIn(positions, i)] = files[i]
             ELSE /\ intake'.queue = <<>>
                  /\ intake'.toast =
                       IF count = 0 THEN "onlyImages" ELSE "tooMany"]_vars

\* A selection with more than maxFiles images has been rejected: nothing
\* is queued.
C32_Witness ==
  /\ intake.toast = "tooMany"
  /\ intake.queue = <<>>

\* C33: the size the preview shows for a completed item is the size of its
\* output: the canvas of convertImage(file, 2050, 2994) is 2050x2994, and
\* createMosaicPieces(file, 2050, 2994) cuts 9 tiles of 2050x2994.
C33_DisplayedSizeIsReal ==
  (geom.pw = 2050 /\ geom.ph = 2994 /\ geom.w > 0 /\ geom.h > 0) =>
    /\ geom.phase = "converted" =>
         /\ geom.conv.canvasW = PreviewLabel.width
         /\ geom.conv.canvasH = PreviewLabel.height
    /\ geom.phase = "tiled" =>
         /\ Cardinality(DOMAIN geom.tiles) = PreviewLabel.parts
         /\ \A t \in DOMAIN geom.tiles :
              /\ geom.tiles[t].width = PreviewLabel.width
              /\ geom.tiles[t].height = PreviewLabel.height
====
